---- MODULE Spec2Model ----
(***************************************************************************)
(* Model of stock_analyzer.py: the symbol extractor, the indicator engine  *)
(* (SMA(150), ATR(14)), the summary builder and the portfolio batch loop.  *)
(* Texts are sequences of one-character strings.  Prices are integers and  *)
(* means are exact rationals [n |-> numerator, d |-> denominator]; the     *)
(* not-a-number value of pandas is the record NaN.                         *)
(***************************************************************************)
EXTENDS Integers, Sequences, FiniteSets, TLC

VARIABLES
    text,            \* extractor: the input string
    tickers,         \* extractor: the list returned by extract_tickers_from_text(text)
    edited,          \* extractor: ", ".join(tickers), the text area's initial value
    reextracted,     \* extractor: extract_tickers_from_text(edited)
    epc,             \* extractor: position of the extraction run
    ticker,          \* summary: the argument of get_stock_summary
    outcome,         \* summary: what the data provider answers for this call
    data,            \* summary: what get_stock_data returned or raised
    summary,         \* summary: what get_stock_summary returned
    spc,             \* summary: position inside get_stock_summary
    final_tickers,   \* batch: the edited ticker list
    idx,             \* batch: 1-based position of the loop in final_tickers
    result,          \* batch: what get_stock_summary returned for this position
    results,         \* batch: the records of the tickers that succeeded
    failed_tickers,  \* batch: the tickers that failed
    fetchLog,        \* batch: the positions get_stock_data was called for, in call order
    answers,         \* batch: the provider's answer to each call, in call order
    bpc,             \* batch: position inside the Analyze Portfolio handler
    aggregates,      \* batch: above_ma, below_ma and avg_gap of the summary cards
    sTicker,         \* single view: the text input, upper-cased and stripped
    sAnswer,         \* single view: what the data provider answers
    sData,           \* single view: what get_stock_data returned
    view,            \* single view: what the tab shows at the end of the run
    vpc,             \* single view: position inside the tab's script
    doc,             \* documents: the uploaded file as decoded text units
    docTickers,      \* documents: the list the reader returned
    dpc,             \* documents: position of the reader
    shown,           \* editing: the extracted list the text area starts from
    editText,        \* editing: the content of the text area
    parsed,          \* editing: final_tickers parsed from the text area
    xpc              \* editing: position of the parse

extractVars == <<text, tickers, edited, reextracted, epc>>

summaryVars == <<ticker, outcome, data, summary, spc>>

batchVars ==
    <<final_tickers, idx, result, results, failed_tickers, fetchLog, answers, bpc,
      aggregates>>

singleVars == <<sTicker, sAnswer, sData, view, vpc>>

docVars == <<doc, docTickers, dpc>>

editVars == <<shown, editText, parsed, xpc>>

(***************************************************************************)
(* Bounds                                                                  *)
(***************************************************************************)
MaxLen == 6
MaxBars == 151
MaxTickers == 3
MaxUnits == 3
MaxEdit == 5

(***************************************************************************)
(* Characters                                                              *)
(***************************************************************************)
UpperLetters ==
    <<"A","B","C","D","E","F","G","H","I","J","K","L","M",
      "N","O","P","Q","R","S","T","U","V","W","X","Y","Z">>

LowerLetters ==
    <<"a","b","c","d","e","f","g","h","i","j","k","l","m",
      "n","o","p","q","r","s","t","u","v","w","x","y","z">>

Digits == {"0","1","2","3","4","5","6","7","8","9"}

Range(s) == {s[k] : k \in DOMAIN s}

UpperSet == Range(UpperLetters)

LetterSet == Range(UpperLetters) \cup Range(LowerLetters)

\* [A-Z] of the pattern
IsAZ(c) == c \in UpperSet

\* a letter of either case
IsLetter(c) == c \in LetterSet

\* \w of the pattern: letters, digits and the underscore
IsWordCharNoDigit(c) == IsLetter(c)

IsWordChar(c) == IsLetter(c) \/ c \in Digits \/ c = "_"

\* str.upper() on one character
UpperChar(c) ==
    IF \E k \in DOMAIN LowerLetters : LowerLetters[k] = c
    THEN UpperLetters[CHOOSE k \in DOMAIN LowerLetters : LowerLetters[k] = c]
    ELSE c

\* text.upper()
Upper(s) == [k \in DOMAIN s |-> UpperChar(s[k])]

(***************************************************************************)
(* re.findall(r'\b[A-Z]{1,5}\b', s)                                        *)
(***************************************************************************)
\* is position p (1-based, 1..Len(s)) a word character; outside the string: no
WordAt(s, p) == p >= 1 /\ p <= Len(s) /\ IsWordChar(s[p])

\* \b between s[p-1] and s[p]
BoundaryAt(s, p) == WordAt(s, p - 1) # WordAt(s, p)

\* s[p..p+k-1] are all in [A-Z]
AllAZ(s, p, k) == p + k - 1 <= Len(s) /\ \A q \in p..(p + k - 1) : IsAZ(s[q])

\* the lengths k in 1..5 with which the pattern matches at p
MatchLensNoTrailingBoundary(s, p) ==
    {k \in 1..5 : BoundaryAt(s, p) /\ AllAZ(s, p, k)}

MatchLens(s, p) ==
    {k \in 1..5 : BoundaryAt(s, p) /\ AllAZ(s, p, k) /\ BoundaryAt(s, p + k)}

SetMax(S) == CHOOSE x \in S : \A y \in S : y <= x

\* the spans <<start, length>> of the successive non-overlapping matches,
\* scanning from p; the quantifier {1,5} is greedy
RECURSIVE MatchSpans(_, _)
MatchSpans(s, p) ==
    IF p > Len(s) THEN <<>>
    ELSE IF MatchLens(s, p) = {} THEN MatchSpans(s, p + 1)
    ELSE LET k == SetMax(MatchLens(s, p))
         IN  <<(<<p, k>>)>> \o MatchSpans(s, p + k)

FindAll(s) ==
    LET spans == MatchSpans(s, 1)
    IN  [j \in DOMAIN spans |-> SubSeq(s, spans[j][1], spans[j][1] + spans[j][2] - 1)]

(***************************************************************************)
(* extract_tickers_from_text                                               *)
(***************************************************************************)
common_words_no_A ==
    { <<"I">>,
      <<"A","M">>, <<"A","N">>, <<"A","S">>, <<"A","T">>, <<"B","E">>,
      <<"B","Y">>, <<"D","O">>, <<"G","O">>, <<"H","E">>, <<"I","F">>,
      <<"I","N">>, <<"I","S">>, <<"I","T">>, <<"M","E">>, <<"M","Y">>,
      <<"N","O">>, <<"O","F">>, <<"O","K">>, <<"O","N">>, <<"O","R">>,
      <<"S","O">>, <<"T","O">>, <<"U","P">>, <<"U","S">>, <<"W","E">>,
      <<"T","H","E">>, <<"A","N","D">>, <<"F","O","R">>, <<"A","R","E">>,
      <<"B","U","T">>, <<"N","O","T">>, <<"Y","O","U">>, <<"A","L","L">>,
      <<"C","A","N">>, <<"H","A","D">>, <<"H","E","R">>, <<"W","A","S">>,
      <<"O","N","E">>, <<"O","U","R">>, <<"O","U","T">>, <<"P","D","F">>,
      <<"U","S","D">>, <<"E","U","R">> }

common_words ==
    { <<"A">>, <<"I">>,
      <<"A","M">>, <<"A","N">>, <<"A","S">>, <<"A","T">>, <<"B","E">>,
      <<"B","Y">>, <<"D","O">>, <<"G","O">>, <<"H","E">>, <<"I","F">>,
      <<"I","N">>, <<"I","S">>, <<"I","T">>, <<"M","E">>, <<"M","Y">>,
      <<"N","O">>, <<"O","F">>, <<"O","K">>, <<"O","N">>, <<"O","R">>,
      <<"S","O">>, <<"T","O">>, <<"U","P">>, <<"U","S">>, <<"W","E">>,
      <<"T","H","E">>, <<"A","N","D">>, <<"F","O","R">>, <<"A","R","E">>,
      <<"B","U","T">>, <<"N","O","T">>, <<"Y","O","U">>, <<"A","L","L">>,
      <<"C","A","N">>, <<"H","A","D">>, <<"H","E","R">>, <<"W","A","S">>,
      <<"O","N","E">>, <<"O","U","R">>, <<"O","U","T">>, <<"P","D","F">>,
      <<"U","S","D">>, <<"E","U","R">> }

\* [t for t in potential_tickers if t not in common_words]
RECURSIVE FilterCommon(_)
FilterCommon(ts) ==
    IF ts = <<>> THEN <<>>
    ELSE IF Head(ts) \in common_words THEN FilterCommon(Tail(ts))
    ELSE <<Head(ts)>> \o FilterCommon(Tail(ts))

\* the seen / unique_tickers loop, from position j on
RECURSIVE UniqueLoopKeepLast(_, _, _, _)
UniqueLoopKeepLast(ts, j, seen, unique_tickers) ==
    IF j > Len(ts) THEN unique_tickers
    ELSE IF \E q \in (j + 1)..Len(ts) : ts[q] = ts[j]
         THEN UniqueLoopKeepLast(ts, j + 1, seen, unique_tickers)
         ELSE UniqueLoopKeepLast(ts, j + 1, seen \cup {ts[j]}, Append(unique_tickers, ts[j]))

RECURSIVE UniqueLoop(_, _, _, _)
UniqueLoop(ts, j, seen, unique_tickers) ==
    IF j > Len(ts) THEN unique_tickers
    ELSE IF ts[j] \notin seen
         THEN UniqueLoop(ts, j + 1, seen \cup {ts[j]}, Append(unique_tickers, ts[j]))
         ELSE UniqueLoop(ts, j + 1, seen, unique_tickers)

potential_tickers(t) == FindAll(Upper(t))

surviving_tickers(t) == FilterCommon(potential_tickers(t))

extract_tickers_from_text(t) == UniqueLoop(surviving_tickers(t), 1, {}, <<>>)

\* ", ".join(tickers)
RECURSIVE JoinNoSeparator(_)
JoinNoSeparator(ts) ==
    IF ts = <<>> THEN <<>> ELSE Head(ts) \o JoinNoSeparator(Tail(ts))

RECURSIVE JoinTickers(_)
JoinTickers(ts) ==
    IF ts = <<>> THEN <<>>
    ELSE IF Len(ts) = 1 THEN Head(ts)
    ELSE Head(ts) \o <<",", " ">> \o JoinTickers(Tail(ts))


(***************************************************************************)
(* Numbers: integers, exact rationals, NaN and None                        *)
(***************************************************************************)
\* every number is a record [n, d]; NaN and None are records of their own
NaN == [nan |-> TRUE]

None == [none |-> TRUE]

\* pd.notna
NotNa(x) == x # NaN /\ x # None

AbsInt(x) == IF x < 0 THEN -x ELSE x

RECURSIVE Gcd(_, _)
Gcd(a, b) == IF b = 0 THEN a ELSE Gcd(b, a % b)

\* the rational n/d in lowest terms with a positive denominator (d # 0)
Rat(n, d) ==
    LET g == Gcd(AbsInt(n), AbsInt(d))
        sgn == IF d < 0 THEN -1 ELSE 1
    IN  [n |-> sgn * (n \div g), d |-> sgn * (d \div g)]

\* the integer k as a number
Num(k) == [n |-> k, d |-> 1]

\* a < b for numbers
Less(a, b) == a.n * b.d < b.n * a.d

\* a - b and abs(a), with NaN propagating as in pandas arithmetic
Minus(a, b) ==
    IF a = NaN \/ b = NaN THEN NaN ELSE Rat(a.n * b.d - b.n * a.d, a.d * b.d)

AbsNa(a) == IF a = NaN THEN NaN ELSE [n |-> AbsInt(a.n), d |-> a.d]

\* the largest number of a non-empty set of numbers
NumMax(S) == CHOOSE x \in S : \A y \in S : ~Less(x, y)

(***************************************************************************)
(* Indicator engine                                                        *)
(***************************************************************************)
MA_WINDOW == 150

ATR_PERIOD == 14

\* col.shift(1)
Shift1(col) == [i \in DOMAIN col |-> IF i = 1 THEN NaN ELSE col[i - 1]]

\* DataFrame.max(axis=1): the largest value of the row that is not NaN,
\* NaN when the whole row is NaN (skipna defaults to True)
RowMaxPropagateNa(row) ==
    IF \E x \in row : x = NaN THEN NaN ELSE NumMax(row)

RowMax(row) ==
    LET present == {x \in row : x # NaN}
    IN  IF present = {} THEN NaN ELSE NumMax(present)

\* a + b for numbers
Plus(a, b) == Rat(a.n * b.d + b.n * a.d, a.d * b.d)

\* a * b, and a / b for b # 0
Times(a, b) == Rat(a.n * b.n, a.d * b.d)

Over(a, b) == Rat(a.n * b.d, a.d * b.n)

\* a / k for a number a and an integer k # 0
DivInt(a, k) == Rat(a.n, a.d * k)

\* sum of col[lo..hi]
RECURSIVE SumRange(_, _, _)
SumRange(col, lo, hi) ==
    IF lo > hi THEN Num(0)
    ELSE IF lo = hi THEN col[lo]
    ELSE LET mid == (lo + hi) \div 2
         IN  Plus(SumRange(col, lo, mid), SumRange(col, mid + 1, hi))

\* col.rolling(window=period).mean(): min_periods defaults to the window, so
\* the value at i is NaN unless the window col[i-period+1..i] lies inside the
\* series and holds no NaN
RollingMeanMinPeriods1(col, period) ==
    [i \in DOMAIN col |->
        LET lo == IF i - period + 1 < 1 THEN 1 ELSE i - period + 1
        IN  IF \A q \in lo..i : col[q] # NaN
            THEN DivInt(SumRange(col, lo, i), i - lo + 1)
            ELSE NaN]

RollingMean(col, period) ==
    [i \in DOMAIN col |->
        IF i - period + 1 >= 1 /\ \A q \in (i - period + 1)..i : col[q] # NaN
        THEN DivInt(SumRange(col, i - period + 1, i), period)
        ELSE NaN]

\* the tr column of calculate_atr
TrueRange(df) ==
    LET prev == Shift1(df.Close)
    IN  [i \in DOMAIN df.Close |->
            RowMax({ Minus(df.High[i], df.Low[i]),
                     AbsNa(Minus(df.High[i], prev[i])),
                     AbsNa(Minus(df.Low[i], prev[i])) })]

calculate_atr(df, period) == RollingMean(TrueRange(df), period)

(***************************************************************************)
(* get_stock_data and get_stock_summary                                    *)
(***************************************************************************)
\* df.empty
IsEmptyFrame(bars) == Len(bars.Close) = 0

\* what the call returns or raises, given the provider's answer:
\* stock.history raising, an empty frame, stock.info raising, or a frame
get_stock_data(o) ==
    IF o.kind = "history_raises" THEN [ret |-> "raised"]
    ELSE IF IsEmptyFrame(o.bars) THEN [ret |-> "none"]
    ELSE LET ma == RollingMean(o.bars.Close, MA_WINDOW)
             atr == calculate_atr(o.bars, ATR_PERIOD)
         IN  IF o.kind = "info_raises" THEN [ret |-> "raised"]
             ELSE [ret |-> "df",
                   df |-> [High |-> o.bars.High, Low |-> o.bars.Low,
                           Close |-> o.bars.Close, MA150 |-> ma, ATR |-> atr]]

\* col.iloc[-1]
ILast(col) == col[Len(col)]

\* ((current_price - ma150) / ma150) * 100 under pd.notna(ma150) and ma150 != 0
GapPct(current_price, ma150) ==
    IF NotNa(ma150) /\ ma150 # Num(0)
    THEN Times(Over(Minus(current_price, ma150), ma150), Num(100))
    ELSE None

\* the dictionary built at lines 400-413
SummaryRecordFirstBar(t, df) ==
    [Ticker |-> t,
     CurrentPrice |-> df.Close[1],
     MA150 |-> ILast(df.MA150),
     Gap |-> GapPct(df.Close[1], ILast(df.MA150)),
     ATR |-> ILast(df.ATR)]

SummaryRecord(t, df) ==
    [Ticker |-> t,
     CurrentPrice |-> ILast(df.Close),
     MA150 |-> ILast(df.MA150),
     Gap |-> GapPct(ILast(df.Close), ILast(df.MA150)),
     ATR |-> ILast(df.ATR)]

\* the rest of get_stock_summary once get_stock_data has returned or raised
SummaryOf(t, r) ==
    IF r.ret = "raised" THEN None
    ELSE IF r.ret = "none" THEN None
    ELSE SummaryRecord(t, r.df)

get_stock_summary(t, o) == SummaryOf(t, get_stock_data(o))

(***************************************************************************)
(* Provider answers                                                        *)
(***************************************************************************)
Shapes == {"flat", "rise", "fall", "zero", "zig", "neg", "drop"}

CloseOf(shape, i) ==
    CASE shape = "flat" -> 100
      [] shape = "rise" -> 100 + i
      [] shape = "fall" -> 400 - i
      [] shape = "zero" -> 0
      [] shape = "zig"  -> 100 + 10 * (i % 2) + (i % 5)
      [] shape = "neg"  -> i - 400
      [] shape = "drop" -> IF i <= 75 THEN 300 ELSE 100

\* n daily bars, ascending by date, low <= close <= high
Bars(n, shape) ==
    [High  |-> [i \in 1..n |-> Num(CloseOf(shape, i) + 1 + (i % 3))],
     Low   |-> [i \in 1..n |-> Num(CloseOf(shape, i) - (IF shape = "zero" THEN 0 ELSE (i % 2)))],
     Close |-> [i \in 1..n |-> Num(CloseOf(shape, i))]]

\* stock.history raises, or returns 0..maxBars bars and stock.info works or raises
ProviderAnswers(maxBars) ==
    {[kind |-> "history_raises"]}
    \cup {[kind |-> k, bars |-> Bars(n, sh)] :
            k \in {"ok", "info_raises"}, n \in 0..maxBars, sh \in Shapes}

Symbols == {"AAPL", "MSFT"}

(***************************************************************************)
(* Extractor inputs                                                        *)
(***************************************************************************)
Alphabet == {"A", "b", "1", "."}

RECURSIVE StringsOfLen(_)
StringsOfLen(n) ==
    IF n = 0 THEN {<<>>}
    ELSE {Append(s, c) : s \in StringsOfLen(n - 1), c \in Alphabet}

ShortTexts(maxLen) == UNION {StringsOfLen(n) : n \in 0..maxLen}

Text_NASDAQ ==
    <<"N","A","S","D","A","Q"," ","T","R","A","D","E","S"," ","A","A","P","L">>
Text_Stop == <<"T","H","E"," ","A","N","D"," ","P","D","F">>
Text_Dup == <<"A","A","P","L"," ","M","S","F","T"," ","A","A","P","L">>
Text_Digit == <<"A","B","1","C","D">>
Text_Underscore == <<"A","B","_","C","D">>
Text_Dot == <<"A","B",".","C","D">>
Text_Mixed == <<"t","h","e"," ","A","a","p","l",","," ","m","s","f","t","\n","G","o","o","g","l","e">>
Text_Underscores == <<"_","b"," ","A","b","_"," ","b","A","_","1"," ","A","A","b">>
Text_Long == <<"A","A","P","L","X","_","B",".","T","R","A","D","I","N","G","-","I","B","M">>

ExampleTexts ==
    {Text_NASDAQ, Text_Stop, Text_Dup, Text_Digit, Text_Underscore, Text_Dot, Text_Mixed,
     Text_Underscores, Text_Long}

IdleExtract ==
    /\ text = <<>>
    /\ tickers = <<>>
    /\ edited = <<>>
    /\ reextracted = <<>>
    /\ epc = "idle"

IdleSummary ==
    /\ ticker = ""
    /\ outcome = None
    /\ data = None
    /\ summary = None
    /\ spc = "idle"

IdleBatch ==
    /\ final_tickers = <<>>
    /\ idx = 0
    /\ result = None
    /\ results = <<>>
    /\ failed_tickers = <<>>
    /\ fetchLog = <<>>
    /\ answers = <<>>
    /\ bpc = "idle"
    /\ aggregates = None

IdleSingle ==
    /\ sTicker = ""
    /\ sAnswer = None
    /\ sData = None
    /\ view = "none"
    /\ vpc = "idle"

IdleDocs ==
    /\ doc = None
    /\ docTickers = <<>>
    /\ dpc = "idle"

IdleEdit ==
    /\ shown = <<>>
    /\ editText = <<>>
    /\ parsed = <<>>
    /\ xpc = "idle"

(***************************************************************************)
(* Extractor run: extract, show the joined list, extract the joined text   *)
(***************************************************************************)
InitExtract ==
    /\ text \in ShortTexts(MaxLen) \cup ExampleTexts
    /\ tickers = <<>>
    /\ edited = <<>>
    /\ reextracted = <<>>
    /\ epc = "input"
    /\ IdleSummary
    /\ IdleBatch
    /\ IdleSingle
    /\ IdleDocs
    /\ IdleEdit

Extract ==
    /\ epc = "input"
    /\ tickers' = extract_tickers_from_text(text)
    /\ epc' = "extracted"
    /\ UNCHANGED <<text, edited, reextracted>>
    /\ UNCHANGED <<summaryVars, batchVars, singleVars, docVars, editVars>>

JoinForEditing ==
    /\ epc = "extracted"
    /\ edited' = JoinTickers(tickers)
    /\ epc' = "joined"
    /\ UNCHANGED <<text, tickers, reextracted>>
    /\ UNCHANGED <<summaryVars, batchVars, singleVars, docVars, editVars>>

ReExtract ==
    /\ epc = "joined"
    /\ reextracted' = extract_tickers_from_text(edited)
    /\ epc' = "reextracted"
    /\ UNCHANGED <<text, tickers, edited>>
    /\ UNCHANGED <<summaryVars, batchVars, singleVars, docVars, editVars>>

NextExtract == Extract \/ JoinForEditing \/ ReExtract

vars ==
    <<text, tickers, edited, reextracted, epc,
      ticker, outcome, data, summary, spc,
      final_tickers, idx, result, results, failed_tickers, fetchLog, answers, bpc,
      aggregates,
      sTicker, sAnswer, sData, view, vpc,
      doc, docTickers, dpc,
      shown, editText, parsed, xpc>>

SpecExtract == InitExtract /\ [][NextExtract]_vars

(***************************************************************************)
(* One call of get_stock_summary                                           *)
(***************************************************************************)
InitSummary ==
    /\ ticker \in Symbols
    /\ outcome \in ProviderAnswers(MaxBars)
    /\ data = None
    /\ summary = None
    /\ spc = "call"
    /\ IdleExtract
    /\ IdleBatch
    /\ IdleSingle
    /\ IdleDocs
    /\ IdleEdit

\* line 397: df, info = get_stock_data(ticker)
CallGetStockData ==
    /\ spc = "call"
    /\ data' = get_stock_data(outcome)
    /\ spc' = "fetched"
    /\ UNCHANGED <<ticker, outcome, summary>>
    /\ UNCHANGED <<extractVars, batchVars, singleVars, docVars, editVars>>

\* lines 398-415: the record, or None for no data and for an exception
ReturnSummary ==
    /\ spc = "fetched"
    /\ summary' = SummaryOf(ticker, data)
    /\ spc' = "returned"
    /\ UNCHANGED <<ticker, outcome, data>>
    /\ UNCHANGED <<extractVars, batchVars, singleVars, docVars, editVars>>

NextSummary == CallGetStockData \/ ReturnSummary

SpecSummary == InitSummary /\ [][NextSummary]_vars

(***************************************************************************)
(* The Analyze Portfolio handler: the batch loop                           *)
(***************************************************************************)
\* the provider's answers a batch draws from: history raising, an empty
\* frame, info raising, a two-bar series, and 150-bar series of each shape
BatchAnswerKeys ==
    { [kind |-> "history_raises", n |-> 0, shape |-> "flat"],
      [kind |-> "ok", n |-> 0, shape |-> "flat"],
      [kind |-> "info_raises", n |-> 150, shape |-> "rise"],
      [kind |-> "ok", n |-> 2, shape |-> "rise"],
      [kind |-> "ok", n |-> 150, shape |-> "rise"],
      [kind |-> "ok", n |-> 150, shape |-> "drop"],
      [kind |-> "ok", n |-> 150, shape |-> "flat"],
      [kind |-> "ok", n |-> 150, shape |-> "zero"] }

AnswerOf(key) ==
    IF key.kind = "history_raises" THEN [kind |-> "history_raises"]
    ELSE [kind |-> key.kind, bars |-> Bars(key.n, key.shape)]

\* get_stock_summary(t) under each answer, tabulated once
SummaryTable ==
    [t \in Symbols, key \in BatchAnswerKeys |-> get_stock_summary(t, AnswerOf(key))]

RECURSIVE ListsOfLen(_)
ListsOfLen(n) ==
    IF n = 0 THEN {<<>>}
    ELSE {Append(l, t) : l \in ListsOfLen(n - 1), t \in Symbols}

TickerLists(maxTickers) == UNION {ListsOfLen(n) : n \in 0..maxTickers}

InitBatch ==
    /\ final_tickers \in TickerLists(MaxTickers)
    /\ idx = 0
    /\ result = None
    /\ results = <<>>
    /\ failed_tickers = <<>>
    /\ fetchLog = <<>>
    /\ answers = <<>>
    /\ bpc = "button"
    /\ aggregates = None
    /\ IdleExtract
    /\ IdleSummary
    /\ IdleSingle
    /\ IdleDocs
    /\ IdleEdit

\* lines 705-713: the button is pressed; an empty list only gets a warning
AnalyzeClicked ==
    /\ bpc = "button"
    /\ IF final_tickers # <<>>
       THEN /\ results' = <<>>
            /\ failed_tickers' = <<>>
            /\ idx' = 1
            /\ bpc' = "loop"
       ELSE /\ bpc' = "warning"
            /\ UNCHANGED <<results, failed_tickers, idx>>
    /\ UNCHANGED <<final_tickers, result, fetchLog, answers>>
    /\ UNCHANGED <<extractVars, summaryVars, aggregates>>
    /\ UNCHANGED <<singleVars, docVars, editVars>>

\* lines 715-719: the next ticker is taken and get_stock_summary is called
CallSummary ==
    /\ bpc = "loop"
    /\ idx <= Len(final_tickers)
    /\ \E key \in BatchAnswerKeys :
          /\ result' = SummaryTable[final_tickers[idx], key]
          /\ answers' = Append(answers, key)
    /\ fetchLog' = Append(fetchLog, idx)
    /\ bpc' = "classify"
    /\ UNCHANGED <<final_tickers, idx, results, failed_tickers>>
    /\ UNCHANGED <<extractVars, summaryVars, aggregates>>
    /\ UNCHANGED <<singleVars, docVars, editVars>>

\* lines 720-723: a record goes to results, None goes to failed_tickers
ClassifyStopOnFailure ==
    /\ bpc = "classify"
    /\ IF result # None
       THEN /\ results' = Append(results, result)
            /\ bpc' = "loop"
            /\ UNCHANGED failed_tickers
       ELSE /\ failed_tickers' = Append(failed_tickers, final_tickers[idx])
            /\ bpc' = "done"
            /\ UNCHANGED results
    /\ idx' = idx + 1
    /\ result' = None
    /\ UNCHANGED <<final_tickers, fetchLog, answers>>
    /\ UNCHANGED <<extractVars, summaryVars, aggregates>>
    /\ UNCHANGED <<singleVars, docVars, editVars>>

ClassifyRetryOnce ==
    /\ bpc = "classify"
    /\ IF result # None
       THEN /\ results' = Append(results, result)
            /\ idx' = idx + 1
            /\ UNCHANGED failed_tickers
       ELSE IF Len(fetchLog) = idx
            THEN UNCHANGED <<results, failed_tickers, idx>>
            ELSE /\ failed_tickers' = Append(failed_tickers, final_tickers[idx])
                 /\ idx' = idx + 1
                 /\ UNCHANGED results
    /\ result' = None
    /\ bpc' = "loop"
    /\ UNCHANGED <<final_tickers, fetchLog, answers>>
    /\ UNCHANGED <<extractVars, summaryVars, aggregates>>
    /\ UNCHANGED <<singleVars, docVars, editVars>>

Classify ==
    /\ bpc = "classify"
    /\ IF result # None
       THEN /\ results' = Append(results, result)
            /\ UNCHANGED failed_tickers
       ELSE /\ failed_tickers' = Append(failed_tickers, final_tickers[idx])
            /\ UNCHANGED results
    /\ idx' = idx + 1
    /\ result' = None
    /\ bpc' = "loop"
    /\ UNCHANGED <<final_tickers, fetchLog, answers>>
    /\ UNCHANGED <<extractVars, summaryVars, aggregates>>
    /\ UNCHANGED <<singleVars, docVars, editVars>>

\* lines 725-726: the list is exhausted
LoopExit ==
    /\ bpc = "loop"
    /\ idx > Len(final_tickers)
    /\ bpc' = "done"
    /\ UNCHANGED <<final_tickers, idx, result, results, failed_tickers, fetchLog, answers>>
    /\ UNCHANGED <<extractVars, summaryVars, aggregates>>
    /\ UNCHANGED <<singleVars, docVars, editVars>>

\* df_results['Gap %'].dropna(): the gaps that are neither None nor NaN
RECURSIVE valid_gaps(_)
valid_gaps(res) ==
    IF res = <<>> THEN <<>>
    ELSE IF NotNa(Head(res).Gap) THEN <<Head(res).Gap>> \o valid_gaps(Tail(res))
    ELSE valid_gaps(Tail(res))

\* (valid_gaps > 0).sum()
AboveMaCountsZero(gaps) == Cardinality({j \in DOMAIN gaps : ~Less(gaps[j], Num(0))})

AboveMa(gaps) == Cardinality({j \in DOMAIN gaps : Less(Num(0), gaps[j])})

\* (valid_gaps < 0).sum()
BelowMa(gaps) == Cardinality({j \in DOMAIN gaps : Less(gaps[j], Num(0))})

\* valid_gaps.mean(): NaN for an empty series
AvgGap(gaps) ==
    IF gaps = <<>> THEN NaN ELSE DivInt(SumRange(gaps, 1, Len(gaps)), Len(gaps))

\* lines 728-809: the failed tickers are reported; with at least one record
\* the table and the three summary cards are shown, otherwise an error
ShowResults ==
    /\ bpc = "done"
    /\ IF results # <<>>
       THEN /\ aggregates' = [above_ma |-> AboveMa(valid_gaps(results)),
                              below_ma |-> BelowMa(valid_gaps(results)),
                              avg_gap  |-> AvgGap(valid_gaps(results))]
            /\ bpc' = "shown"
       ELSE /\ bpc' = "no_results"
            /\ UNCHANGED aggregates
    /\ UNCHANGED <<final_tickers, idx, result, results, failed_tickers, fetchLog, answers>>
    /\ UNCHANGED <<extractVars, summaryVars, singleVars, docVars, editVars>>

NextBatch == AnalyzeClicked \/ CallSummary \/ Classify \/ LoopExit \/ ShowResults

SpecBatch == InitBatch /\ [][NextBatch]_vars

\* the steps of the loop, from the button to the exhausted list
BatchLoop == AnalyzeClicked \/ CallSummary \/ Classify \/ LoopExit

\* the loop runs to its end once started: one thread, no waiting
FairSpecBatch == InitBatch /\ [][NextBatch]_vars /\ WF_vars(BatchLoop)

(***************************************************************************)
(* The single-ticker tab                                                   *)
(***************************************************************************)
InitSingle ==
    /\ sTicker \in Symbols \cup {""}
    /\ sAnswer \in ProviderAnswers(MaxBars)
    /\ sData = None
    /\ view = "none"
    /\ vpc = "input"
    /\ IdleExtract
    /\ IdleSummary
    /\ IdleBatch
    /\ IdleDocs
    /\ IdleEdit

\* lines 582-584 and 651-653: without a ticker the hint is shown; otherwise
\* get_stock_data is called outside any try, so what it raises ends the run
SingleLoad ==
    /\ vpc = "input"
    /\ IF sTicker = ""
       THEN /\ view' = "hint"
            /\ vpc' = "rendered"
            /\ UNCHANGED sData
       ELSE LET r == get_stock_data(sAnswer)
            IN  /\ sData' = r
                /\ IF r.ret = "raised"
                   THEN view' = "uncaught_exception" /\ vpc' = "aborted"
                   ELSE view' = "none" /\ vpc' = "loaded"
    /\ UNCHANGED <<sTicker, sAnswer>>
    /\ UNCHANGED <<extractVars, summaryVars, batchVars, docVars, editVars>>

\* lines 586-650: the dashboard for a non-empty frame, where line 597 reads
\* df['Close'].iloc[-2] and raises IndexError on a one-bar frame; the
\* no-data error otherwise
SingleRender ==
    /\ vpc = "loaded"
    /\ IF sData.ret = "df"
       THEN IF Len(sData.df.Close) < 2
            THEN view' = "uncaught_exception" /\ vpc' = "aborted"
            ELSE view' = "dashboard" /\ vpc' = "rendered"
       ELSE view' = "no_data_notice" /\ vpc' = "rendered"
    /\ UNCHANGED <<sTicker, sAnswer, sData>>
    /\ UNCHANGED <<extractVars, summaryVars, batchVars, docVars, editVars>>

NextSingle == SingleLoad \/ SingleRender

SpecSingle == InitSingle /\ [][NextSingle]_vars

(***************************************************************************)
(* The document readers                                                    *)
(***************************************************************************)
\* list(dict.fromkeys(tickers)): each key once, at its first position
RECURSIVE DictFromKeys(_, _)
DictFromKeys(ts, acc) ==
    IF ts = <<>> THEN acc
    ELSE IF \E j \in DOMAIN acc : acc[j] = Head(ts) THEN DictFromKeys(Tail(ts), acc)
    ELSE DictFromKeys(Tail(ts), Append(acc, Head(ts)))

\* lines 435-441: every cell value is extracted on its own
RECURSIVE ExtendPerCell(_)
ExtendPerCell(vals) ==
    IF vals = <<>> THEN <<>>
    ELSE extract_tickers_from_text(Head(vals)) \o ExtendPerCell(Tail(vals))

read_excel_tickers(vals) == DictFromKeys(ExtendPerCell(vals), <<>>)

\* lines 451-454: text += page.extract_text() or "", nothing in between
RECURSIVE ConcatPages(_)
ConcatPages(pages) ==
    IF pages = <<>> THEN <<>> ELSE Head(pages) \o ConcatPages(Tail(pages))

read_pdf_tickers(pages, PDF_SUPPORT) ==
    IF ~PDF_SUPPORT THEN <<>>
    ELSE extract_tickers_from_text(ConcatPages(pages))

\* " ".join(paragraph texts)
RECURSIVE JoinSpace(_)
JoinSpace(paras) ==
    IF paras = <<>> THEN <<>>
    ELSE IF Len(paras) = 1 THEN Head(paras)
    ELSE Head(paras) \o <<" ">> \o JoinSpace(Tail(paras))

\* text += " " + cell.text for every table cell
RECURSIVE AppendCells(_, _)
AppendCells(t, cells) ==
    IF cells = <<>> THEN t
    ELSE AppendCells(t \o <<" ">> \o Head(cells), Tail(cells))

read_word_tickers(paras, cells, DOCX_SUPPORT) ==
    IF ~DOCX_SUPPORT THEN <<>>
    ELSE extract_tickers_from_text(AppendCells(JoinSpace(paras), cells))

\* lines 679-686: the reader chosen by the file type
ReadDocument(d) ==
    CASE d.kind = "excel" -> read_excel_tickers(d.units)
      [] d.kind = "pdf"   -> read_pdf_tickers(d.units, d.supported)
      [] d.kind = "word"  -> read_word_tickers(d.units, d.cells, d.supported)

\* the decoded text of one cell, page, paragraph or table cell
UnitTexts ==
    { <<>>,
      <<"A","A","P","L">>,
      <<"M","S","F","T">>,
      <<"A","b">>,
      <<"b"," ">>,
      <<"1">>,
      <<"T","H","E">> }

RECURSIVE UnitSeqsOfLen(_)
UnitSeqsOfLen(n) ==
    IF n = 0 THEN {<<>>}
    ELSE {Append(us, u) : us \in UnitSeqsOfLen(n - 1), u \in UnitTexts}

UnitSeqs(maxUnits) == UNION {UnitSeqsOfLen(n) : n \in 0..maxUnits}

\* an uploaded file after decoding: cells of a sheet, pages of a PDF, or
\* paragraphs and table cells of a Word file
Documents(maxUnits) ==
    {[kind |-> "excel", supported |-> TRUE, units |-> us, cells |-> <<>>] :
        us \in UnitSeqs(maxUnits)}
    \cup {[kind |-> "pdf", supported |-> sup, units |-> us, cells |-> <<>>] :
        sup \in BOOLEAN, us \in UnitSeqs(maxUnits)}
    \cup UNION {{[kind |-> "word", supported |-> sup,
                  units |-> SubSeq(us, 1, k), cells |-> SubSeq(us, k + 1, Len(us))] :
                    sup \in BOOLEAN, k \in 0..Len(us)} : us \in UnitSeqs(maxUnits)}

InitDocs ==
    /\ doc \in Documents(MaxUnits)
    /\ docTickers = <<>>
    /\ dpc = "uploaded"
    /\ IdleExtract
    /\ IdleSummary
    /\ IdleBatch
    /\ IdleSingle
    /\ IdleEdit

\* lines 678-686
ExtractFromDocument ==
    /\ dpc = "uploaded"
    /\ docTickers' = ReadDocument(doc)
    /\ dpc' = "read"
    /\ UNCHANGED doc
    /\ UNCHANGED <<extractVars, summaryVars, batchVars, singleVars, editVars>>

NextDocs == ExtractFromDocument

SpecDocs == InitDocs /\ [][NextDocs]_vars

(***************************************************************************)
(* The editable ticker list                                                *)
(***************************************************************************)
\* characters removed by str.strip()
Whitespace == {" ", "\n", "\t", "\r"}

\* ',' in edited_tickers
HasComma(s) == \E k \in DOMAIN s : s[k] = ","

\* the separator handed to split
SeparatorAlwaysComma(s) == ","

Separator(s) == IF HasComma(s) THEN "," ELSE "\n"

\* s.split(sep): the pieces between separators, empty pieces included
RECURSIVE SplitLoop(_, _, _, _, _)
SplitLoop(s, sep, p, piece, acc) ==
    IF p > Len(s) THEN Append(acc, piece)
    ELSE IF s[p] = sep THEN SplitLoop(s, sep, p + 1, <<>>, Append(acc, piece))
    ELSE SplitLoop(s, sep, p + 1, Append(piece, s[p]), acc)

Split(s, sep) == SplitLoop(s, sep, 1, <<>>, <<>>)

\* t.strip()
Strip(t) ==
    LET keep == {k \in DOMAIN t : t[k] \notin Whitespace}
    IN  IF keep = {} THEN <<>>
        ELSE SubSeq(t, CHOOSE k \in keep : \A q \in keep : k <= q,
                       CHOOSE k \in keep : \A q \in keep : q <= k)

\* [t.strip().upper() for t in pieces if t.strip()]
RECURSIVE StripUpperNonEmpty(_)
StripUpperNonEmpty(pieces) ==
    IF pieces = <<>> THEN <<>>
    ELSE IF Strip(Head(pieces)) = <<>> THEN StripUpperNonEmpty(Tail(pieces))
    ELSE <<Upper(Strip(Head(pieces)))>> \o StripUpperNonEmpty(Tail(pieces))

\* lines 698-701
ParseFinalTickers(s) == StripUpperNonEmpty(Split(s, Separator(s)))

\* what the user can type
EditAlphabet == {"A", "b", ",", "\n", " "}

RECURSIVE EditsOfLen(_)
EditsOfLen(n) ==
    IF n = 0 THEN {<<>>}
    ELSE {Append(e, c) : e \in EditsOfLen(n - 1), c \in EditAlphabet}

EditTexts(maxEdit) == UNION {EditsOfLen(n) : n \in 0..maxEdit}

\* the text area exists only for a non-empty extracted list (line 688)
ShownLists == {extract_tickers_from_text(t) : t \in ExampleTexts} \ {<<>>}

InitEdit ==
    /\ shown \in ShownLists
    /\ editText = <<>>
    /\ parsed = <<>>
    /\ xpc = "extracted"
    /\ IdleExtract
    /\ IdleSummary
    /\ IdleBatch
    /\ IdleSingle
    /\ IdleDocs

\* first run after the upload: the text area holds the joined list
ShowTextArea ==
    /\ xpc = "extracted"
    /\ editText' = JoinTickers(shown)
    /\ parsed' = ParseFinalTickers(JoinTickers(shown))
    /\ xpc' = "unedited"
    /\ UNCHANGED shown
    /\ UNCHANGED <<extractVars, summaryVars, batchVars, singleVars, docVars>>

\* the user replaces the text; the script runs again on the new text
UserEdits ==
    /\ xpc = "unedited"
    /\ \E e \in EditTexts(MaxEdit) :
          /\ editText' = e
          /\ parsed' = ParseFinalTickers(e)
    /\ xpc' = "edited"
    /\ UNCHANGED shown
    /\ UNCHANGED <<extractVars, summaryVars, batchVars, singleVars, docVars>>

NextEdit == ShowTextArea \/ UserEdits

SpecEdit == InitEdit /\ [][NextEdit]_vars

(***************************************************************************)
(* Properties of the extractor                                             *)
(***************************************************************************)
\* the maximal runs <<first, last>> of letters A-Z of s
MaximalRuns(s) ==
    {r \in (1..Len(s)) \X (1..Len(s)) :
        /\ r[1] <= r[2]
        /\ \A q \in r[1]..r[2] : s[q] \in UpperSet
        /\ (r[1] = 1 \/ s[r[1] - 1] \notin UpperSet)
        /\ (r[2] = Len(s) \/ s[r[2] + 1] \notin UpperSet)}

RunLen(r) == r[2] - r[1] + 1

RunToken(s, r) == SubSeq(s, r[1], r[2])

\* a digit or an underscore touches the run
TouchesDigitOrUnderscore(s, r) ==
    \/ (r[1] > 1 /\ (s[r[1] - 1] \in Digits \/ s[r[1] - 1] = "_"))
    \/ (r[2] < Len(s) /\ (s[r[2] + 1] \in Digits \/ s[r[2] + 1] = "_"))

SpanSet(s) == {<<sp[1], sp[1] + sp[2] - 1>> : sp \in Range(MatchSpans(s, 1))}

FirstIndex(ts, t) == CHOOSE j \in DOMAIN ts : ts[j] = t /\ \A q \in 1..(j - 1) : ts[q] # t

Tok_AAPL == <<"A","A","P","L">>
Tok_MSFT == <<"M","S","F","T">>
Tok_AB == <<"A","B">>
Tok_CD == <<"C","D">>

\* C3: after upper-casing, every match of the pattern is an entire maximal
\* run of 1 to 5 letters, so every emitted token is such a run and a run of
\* 6 or more letters contributes nothing; extract("NASDAQ TRADES AAPL") is
\* ["AAPL"]; lower-case and mixed-case words are candidates.
C3_TokenRule ==
    epc # "input" =>
        LET U == Upper(text)
        IN  /\ \A sp \in SpanSet(U) : sp \in MaximalRuns(U) /\ RunLen(sp) \in 1..5
            /\ \A j \in DOMAIN tickers :
                  \E r \in MaximalRuns(U) :
                      RunLen(r) \in 1..5 /\ RunToken(U, r) = tickers[j]
            /\ \A r \in MaximalRuns(U) : RunLen(r) >= 6 =>
                  \A sp \in SpanSet(U) : sp[2] < r[1] \/ sp[1] > r[2]
            /\ (text = Text_NASDAQ => tickers = <<Tok_AAPL>>)
            /\ (text = Text_Mixed => tickers = <<Tok_AAPL, Tok_MSFT>>)
            /\ (text = <<"A", "b">> => tickers = <<Tok_AB>>)

C3_Witness ==
    /\ epc = "extracted"
    /\ text = Text_NASDAQ
    /\ tickers = <<Tok_AAPL>>

\* C4 as stated: every letter group of 1 to 5 letters that is not on the
\* stop-list is emitted, whatever non-letter (digit, underscore or other
\* punctuation) delimits it.
C4_AsStated ==
    epc # "input" =>
        LET U == Upper(text)
        IN  \A r \in MaximalRuns(U) :
                (RunLen(r) \in 1..5 /\ RunToken(U, r) \notin common_words)
                    => \E j \in DOMAIN tickers : tickers[j] = RunToken(U, r)

\* C4 amended: a letter group of 1 to 5 letters not on the stop-list is
\* emitted when neither neighbour is a digit or an underscore, and is not
\* matched at all when a digit or an underscore touches it; so "AB.CD"
\* gives both groups while "AB1CD" and "AB_CD" give none.
C4_WordBoundary ==
    epc # "input" =>
        LET U == Upper(text)
        IN  /\ \A r \in MaximalRuns(U) :
                  (RunLen(r) \in 1..5 /\ RunToken(U, r) \notin common_words) =>
                      /\ ~TouchesDigitOrUnderscore(U, r) =>
                            /\ r \in SpanSet(U)
                            /\ \E j \in DOMAIN tickers : tickers[j] = RunToken(U, r)
                      /\ TouchesDigitOrUnderscore(U, r) => r \notin SpanSet(U)
            /\ (text = Text_Dot => tickers = <<Tok_AB, Tok_CD>>)
            /\ (text = Text_Digit => tickers = <<>>)
            /\ (text = Text_Underscore => tickers = <<>>)
            /\ (text = Text_Underscores => tickers = <<(<<"A", "A", "B">>)>>)
            /\ (text = Text_Long => tickers = <<(<<"I", "B", "M">>)>>)

C4_Witness ==
    /\ epc = "extracted"
    /\ text = <<"A", "b", ".", "b", "1">>
    /\ tickers = <<Tok_AB>>

\* C5: no element of the extractor's output is on the 45-word stop-list, a
\* text whose letter groups are all stop-list words gives the empty list
\* (extract("THE AND PDF") = []), and extraction is defined for every
\* string, the empty one included.
C5_StopList ==
    /\ Cardinality(common_words) = 45
    /\ epc = "input" =>
        LET out == extract_tickers_from_text(text)
        IN  DOMAIN out = 1..Len(out) /\ \A j \in DOMAIN out : out[j] \in Seq(UpperSet)
    /\ epc # "input" =>
        LET U == Upper(text)
        IN  /\ \A j \in DOMAIN tickers : tickers[j] \notin common_words
            /\ (\A r \in MaximalRuns(U) : RunToken(U, r) \in common_words)
                  => tickers = <<>>
            /\ (text = Text_Stop => tickers = <<>>)
            /\ (text = <<>> => tickers = <<>>)

C5_Witness ==
    /\ epc = "extracted"
    /\ text = <<"A", ".", "A", "b", ".", "A">>
    /\ tickers = <<Tok_AB>>

\* C6: the output has no repeated element, has exactly the surviving
\* (non-stop-list) tokens as elements, and lists them in the order of their
\* first occurrence; extract("AAPL MSFT AAPL") = ["AAPL", "MSFT"].
C6_Dedup ==
    epc # "input" =>
        LET surv == surviving_tickers(text)
        IN  /\ \A j, q \in DOMAIN tickers : j # q => tickers[j] # tickers[q]
            /\ Range(tickers) = Range(surv)
            /\ \A j, q \in DOMAIN tickers :
                  j < q => FirstIndex(surv, tickers[j]) < FirstIndex(surv, tickers[q])
            /\ (text = Text_Dup => tickers = <<Tok_AAPL, Tok_MSFT>>)

C6_Witness ==
    /\ epc = "extracted"
    /\ text = <<"b", ".", "A", "b", ".", "b">>
    /\ tickers = <<(<<"B">>), Tok_AB>>

\* C7: extracting from the ", "-joined output of an extraction returns the
\* same list, same elements in the same order.
C7_Idempotent ==
    epc = "reextracted" => reextracted = tickers

C7_Witness ==
    /\ epc = "reextracted"
    /\ Len(tickers) >= 2
    /\ reextracted = tickers

(***************************************************************************)
(* Properties of the indicator engine and the summary builder              *)
(***************************************************************************)
\* the value of a column at the 0-based session index i
At(col, i) == col[i + 1]

HasFrame == spc \in {"fetched", "returned"} /\ data.ret = "df"

\* C8 as stated: True Range is undefined at session 0, ATR(14) is undefined
\* at sessions 0..13 and defined at session 14, and a series of fewer than
\* 15 bars has no defined ATR.
C8_AsStated ==
    HasFrame =>
        LET df == data.df
            n == Len(df.Close)
        IN  /\ At(TrueRange(df), 0) = NaN
            /\ \A i \in 0..(n - 1) : i <= 13 => At(df.ATR, i) = NaN
            /\ n >= 15 => At(df.ATR, 14) # NaN

\* C8 amended: True Range at session 0 is high[0] - low[0], ATR(14) is
\* undefined at sessions 0..12 and defined from session 13 on, where it is
\* the mean of the 14 True Ranges ending there; a series of fewer than 14
\* bars has no defined ATR.
C8_AtrWarmup ==
    HasFrame =>
        LET df == data.df
            n == Len(df.Close)
            tr == TrueRange(df)
        IN  /\ At(tr, 0) = Minus(At(df.High, 0), At(df.Low, 0))
            /\ At(tr, 0) # NaN
            /\ \A i \in 0..(n - 1) :
                  /\ i <= 12 => At(df.ATR, i) = NaN
                  /\ i >= 13 => At(df.ATR, i) # NaN
                  /\ i = 13 => At(df.ATR, i) = DivInt(SumRange(tr, 1, 14), 14)
                  /\ i >= 14 =>
                        Minus(At(df.ATR, i), At(df.ATR, i - 1))
                            = DivInt(Minus(At(tr, i), At(tr, i - 14)), 14)
            /\ n < 14 => \A i \in 0..(n - 1) : At(df.ATR, i) = NaN

C8_Witness ==
    /\ HasFrame
    /\ Len(data.df.Close) = 14
    /\ At(data.df.ATR, 13) # NaN
    /\ At(data.df.ATR, 12) = NaN

\* C9: MA150 is undefined at every session of a series shorter than 150 bars
\* and at sessions 0..148 of a longer one; at every session i >= 149 it is
\* the arithmetic mean of close[i-149..i], and it is the value the same
\* computation gives on the series cut after session i.
C9_Sma150 ==
    HasFrame =>
        LET df == data.df
            n == Len(df.Close)
        IN  /\ Len(df.MA150) = n
            /\ n < 150 => \A i \in 0..(n - 1) : At(df.MA150, i) = NaN
            /\ \A i \in 0..(n - 1) :
                  /\ i <= 148 => At(df.MA150, i) = NaN
                  /\ i >= 149 =>
                        /\ At(df.MA150, i) # NaN
                        /\ Times(At(df.MA150, i), Num(150))
                              = SumRange(df.Close, i - 149 + 1, i + 1)
                  /\ i >= 150 =>
                        Minus(At(df.MA150, i), At(df.MA150, i - 1))
                            = DivInt(Minus(At(df.Close, i), At(df.Close, i - 150)), 150)
                  /\ At(RollingMean(SubSeq(df.Close, 1, i + 1), MA_WINDOW), i)
                        = At(df.MA150, i)

C9_Witness ==
    /\ HasFrame
    /\ Len(data.df.Close) = 151
    /\ At(data.df.MA150, 148) = NaN
    /\ At(data.df.MA150, 149) # NaN
    /\ At(data.df.MA150, 150) # At(data.df.MA150, 149)

\* C10: get_stock_summary returns None when get_stock_data gave no frame (an
\* empty series, or the fetch raised); for every frame it returned, of any
\* length, the result is a record whose price is the last close and whose
\* MA150 and ATR are the last indicator values; the gap is
\* (price - ma) / ma * 100 exactly when the last MA150 is defined and not
\* zero, and None otherwise.
C10_SummaryRecord ==
    /\ spc \in {"fetched", "returned"} =>
          /\ (outcome.kind = "ok" /\ Len(outcome.bars.Close) > 0) => data.ret = "df"
          /\ (outcome.kind = "ok" /\ Len(outcome.bars.Close) = 0) => data.ret = "none"
          /\ outcome.kind = "history_raises" => data.ret = "raised"
    /\ spc = "returned" =>
          /\ data.ret \in {"raised", "none"} => summary = None
          /\ data.ret = "df" =>
                LET df == data.df
                    n == Len(df.Close)
                    ma == df.MA150[n]
                IN  /\ summary # None
                    /\ summary.Ticker = ticker
                    /\ summary.CurrentPrice = df.Close[n]
                    /\ summary.MA150 = ma
                    /\ summary.ATR = df.ATR[n]
                    /\ (ma # NaN /\ ma # Num(0)) =>
                          /\ summary.Gap # None
                          /\ Times(summary.Gap, ma)
                                = Times(Minus(df.Close[n], ma), Num(100))
                    /\ (ma = NaN \/ ma = Num(0)) => summary.Gap = None

C10_Witness ==
    /\ spc = "returned"
    /\ data.ret = "df"
    /\ Len(data.df.Close) = 3
    /\ summary # None
    /\ summary.CurrentPrice = Num(103)
    /\ summary.MA150 = NaN
    /\ summary.Gap = None

(***************************************************************************)
(* Properties of the batch loop                                            *)
(***************************************************************************)
\* the provider's answer lets get_stock_data return a non-empty frame
GivesFrame(key) == key.kind = "ok" /\ key.n > 0

\* the entries of list at the positions p (ascending) that satisfy keep
RECURSIVE SelectFrom(_, _, _)
SelectFrom(list, keep, p) ==
    IF p > Len(list) THEN <<>>
    ELSE IF p \in keep THEN <<list[p]>> \o SelectFrom(list, keep, p + 1)
    ELSE SelectFrom(list, keep, p + 1)

Classified == Len(results) + Len(failed_tickers)

\* C1: every position the loop has classified is in exactly one of results
\* and failed_tickers: the succeeded tickers are the input entries whose
\* fetch gave a frame, the failed ones are the others, both in input order;
\* when the loop is done every position has been processed, so the two
\* lengths add up to the length of the list, whatever failed on the way.
C1_Partition ==
    bpc \in {"loop", "classify", "done"} =>
        LET done == 1..Classified
            ok == {p \in done : GivesFrame(answers[p])}
        IN  /\ Classified <= Len(final_tickers)
            /\ Classified <= Len(answers)
            /\ [j \in DOMAIN results |-> results[j].Ticker]
                  = SelectFrom(final_tickers, ok, 1)
            /\ failed_tickers = SelectFrom(final_tickers, done \ ok, 1)
            /\ bpc = "done" =>
                  /\ Classified = Len(final_tickers)
                  /\ Len(answers) = Len(final_tickers)

C1_Witness ==
    /\ bpc = "done"
    /\ final_tickers = <<"AAPL", "MSFT", "AAPL">>
    /\ failed_tickers = <<"AAPL">>
    /\ Len(results) = 2
    /\ ~GivesFrame(answers[1])

\* C2: get_stock_data is called for the positions 1, 2, ... in this order,
\* once each; a call for a position is made only when every earlier position
\* has been classified; and a started loop ends with every entry fetched
\* once and classified.
C2_Sequential ==
    /\ [](bpc \in {"loop", "classify", "done"} =>
            /\ \A j \in DOMAIN fetchLog : fetchLog[j] = j
            /\ Len(fetchLog) <= Len(final_tickers)
            /\ bpc = "classify" => Len(fetchLog) = Classified + 1
            /\ bpc \in {"loop", "done"} => Len(fetchLog) = Classified)
    /\ [][fetchLog' # fetchLog =>
            /\ Len(fetchLog) = Classified
            /\ fetchLog' = Append(fetchLog, Classified + 1)]_vars
    /\ (bpc = "loop") ~>
            (bpc = "done" /\ Len(fetchLog) = Len(final_tickers)
                          /\ Classified = Len(final_tickers))

C2_Witness ==
    /\ bpc = "done"
    /\ fetchLog = <<1, 2, 3>>
    /\ Len(failed_tickers) = 2
    /\ Len(results) = 1

(***************************************************************************)
(* Properties of the gap                                                   *)
(***************************************************************************)
\* C11: in every summary record with a defined gap, the price is above the
\* MA150 exactly when the gap is positive and below it exactly when the gap
\* is negative, for every defined non-zero MA150.
C11_GapSign ==
    (spc = "returned" /\ summary # None /\ summary.Gap # None /\ summary.Gap # NaN) =>
        /\ Less(summary.MA150, summary.CurrentPrice) <=> Less(Num(0), summary.Gap)
        /\ Less(summary.CurrentPrice, summary.MA150) <=> Less(summary.Gap, Num(0))

\* the same relation, for the records whose MA150 is positive
C11_GapSignPositiveMa ==
    (/\ spc = "returned" /\ summary # None
     /\ summary.Gap # None /\ summary.Gap # NaN
     /\ Less(Num(0), summary.MA150)) =>
        /\ Less(summary.MA150, summary.CurrentPrice) <=> Less(Num(0), summary.Gap)
        /\ Less(summary.CurrentPrice, summary.MA150) <=> Less(summary.Gap, Num(0))

(***************************************************************************)
(* Properties of the batch aggregates                                      *)
(***************************************************************************)
DefinedGapAt(j) == results[j].Gap # None /\ results[j].Gap # NaN

\* the sum of the defined gaps of results[1..j]
RECURSIVE DefinedGapSum(_)
DefinedGapSum(j) ==
    IF j = 0 THEN Num(0)
    ELSE IF DefinedGapAt(j) THEN Plus(DefinedGapSum(j - 1), results[j].Gap)
    ELSE DefinedGapSum(j - 1)

\* C12: above_ma counts exactly the records with a defined gap > 0, below_ma
\* exactly those with a defined gap < 0, and avg_gap is the mean of the
\* defined gaps; above_ma + below_ma <= number of records, with equality
\* exactly when no record has an undefined or zero gap.
C12_Aggregates ==
    bpc = "shown" =>
        LET pos == {j \in DOMAIN results : DefinedGapAt(j) /\ Less(Num(0), results[j].Gap)}
            neg == {j \in DOMAIN results : DefinedGapAt(j) /\ Less(results[j].Gap, Num(0))}
            def == {j \in DOMAIN results : DefinedGapAt(j)}
            rest == {j \in DOMAIN results : ~DefinedGapAt(j) \/ results[j].Gap = Num(0)}
        IN  /\ aggregates.above_ma = Cardinality(pos)
            /\ aggregates.below_ma = Cardinality(neg)
            /\ def # {} =>
                  Times(aggregates.avg_gap, Num(Cardinality(def)))
                      = DefinedGapSum(Len(results))
            /\ def = {} => aggregates.avg_gap = NaN
            /\ aggregates.above_ma + aggregates.below_ma <= Len(results)
            /\ (aggregates.above_ma + aggregates.below_ma = Len(results)) <=> (rest = {})

C12_Witness ==
    /\ bpc = "shown"
    /\ Len(results) = 3
    /\ aggregates.above_ma = 1
    /\ aggregates.below_ma = 1
    /\ results[1].Gap = None
    /\ results[2].Gap # None

(***************************************************************************)
(* Properties of the error paths                                           *)
(***************************************************************************)
\* C13: no failure path ends in an uncaught exception: in the single-ticker
\* tab and in the batch loop alike, a raising fetch, a raising metadata
\* lookup, an empty series and a short or one-bar series all end in a
\* rendered page, and a fetch that gives no frame ends in the no-data notice.
C13_NoFatalError ==
    /\ vpc # "aborted"
    /\ view # "uncaught_exception"
    /\ (vpc = "rendered" /\ sTicker # "" /\ sAnswer.kind # "ok") => view = "no_data_notice"

(***************************************************************************)
(* Properties of the document readers                                      *)
(***************************************************************************)
\* the tokens of every unit extracted on its own, in unit order
RECURSIVE PerUnitTokens(_)
PerUnitTokens(us) ==
    IF us = <<>> THEN <<>>
    ELSE PerUnitTokens(SubSeq(us, 1, Len(us) - 1)) \o extract_tickers_from_text(us[Len(us)])

\* s keeps each element of ts once, in the order of first occurrence
IsFirstOccurrenceDedup(s, ts) ==
    /\ Range(s) = Range(ts)
    /\ \A j, q \in DOMAIN s : j < q =>
          s[j] # s[q] /\ FirstIndex(ts, s[j]) < FirstIndex(ts, s[q])

AllUnits(d) == d.units \o d.cells

\* C14: for each reader and every decoded document, the returned list is the
\* per-unit extraction, concatenated in unit order and deduplicated by first
\* occurrence; symbols of neighbouring units are never merged into one run.
C14_PerUnit ==
    (dpc = "read" /\ doc.supported) =>
        IsFirstOccurrenceDedup(docTickers, PerUnitTokens(AllUnits(doc)))

\* the same agreement for the spreadsheet and Word readers alone
C14_ExcelAndWordPerUnit ==
    (dpc = "read" /\ doc.supported /\ doc.kind \in {"excel", "word"}) =>
        IsFirstOccurrenceDedup(docTickers, PerUnitTokens(AllUnits(doc)))

(***************************************************************************)
(* Properties of the editable ticker list                                  *)
(***************************************************************************)
\* positions of the separator in use: commas if there is one, else newlines
SepPositions(s) ==
    IF \E k \in DOMAIN s : s[k] = ","
    THEN {k \in DOMAIN s : s[k] = ","}
    ELSE {k \in DOMAIN s : s[k] = "\n"}

\* a piece starts at the beginning of the text and after every separator
PieceStarts(s) == {1} \cup {k + 1 : k \in SepPositions(s)}

\* last position of the piece that starts at a
PieceEnd(s, a) ==
    LET after == {k \in SepPositions(s) : k >= a} \cup {Len(s) + 1}
    IN  (CHOOSE k \in after : \A q \in after : k <= q) - 1

\* positions of the piece at a that strip() keeps
Inked(s, a) == {k \in a..PieceEnd(s, a) : s[k] \notin Whitespace}

NonBlankStarts(s) == {a \in PieceStarts(s) : Inked(s, a) # {}}

\* the j-th non-blank piece, counted from the left
NthNonBlank(s, j) ==
    CHOOSE a \in NonBlankStarts(s) :
        Cardinality({b \in NonBlankStarts(s) : b <= a}) = j

Trimmed(s, a) ==
    SubSeq(s, CHOOSE k \in Inked(s, a) : \A q \in Inked(s, a) : k <= q,
              CHOOSE k \in Inked(s, a) : \A q \in Inked(s, a) : q <= k)

\* C15: the final list has one entry per non-blank piece of the text, in text
\* order and with duplicates kept, the pieces being cut at commas when the text
\* has a comma and at newlines otherwise; each entry is its piece stripped and
\* upper-cased, so no entry is empty and with a comma present a newline inside
\* a piece stays inside the entry; the unedited joined list parses back to the
\* extracted list.
C15_FinalTickers ==
    xpc \in {"unedited", "edited"} =>
        /\ Len(parsed) = Cardinality(NonBlankStarts(editText))
        /\ \A j \in DOMAIN parsed :
              /\ parsed[j] = Upper(Trimmed(editText, NthNonBlank(editText, j)))
              /\ parsed[j] # <<>>
              /\ parsed[j][1] \notin Whitespace
              /\ parsed[j][Len(parsed[j])] \notin Whitespace
              /\ \A k \in DOMAIN parsed[j] : parsed[j][k] \notin Range(LowerLetters)
        /\ (editText = JoinTickers(shown)) => parsed = shown
        /\ (editText = <<"A", "\n", "b", ",", "A">>) =>
              parsed = << <<"A", "\n", "B">>, <<"A">> >>
        /\ (editText = <<"b", ",", " ", "b">>) => parsed = << <<"B">>, <<"B">> >>

\* a text that mixes both separators has been parsed and a newline stayed
\* inside an entry
C15_Witness ==
    /\ xpc = "edited"
    /\ editText = <<"A", ",", "A", "\n", "b">>
    /\ parsed = << <<"A">>, <<"A", "\n", "B">> >>

====
